---- MODULE Spec2Model ----
(***************************************************************************)
(* Checkpointed bidirectional enumerators and the optimal-cost oracle.     *)
(*                                                                         *)
(*   kcomplexity.py     RecursiveCheckpointEnumerator                      *)
(*   logncomplexity.py  HierarchicalBinaryTree, ProperLogNEnumerator       *)
(*   enum2.py           T, optimal_x_l, optimal_x_r                        *)
(*   ncomplexity.py     NElementBiDiWrapper, CountingIterator, the tests   *)
(*                                                                         *)
(* Python lists are 0-based and accept negative indices; sequences here    *)
(* are 1-based, so every list read goes through PyIndexOk / PyGet.  An     *)
(* exception raised inside a call is recorded in ret and ends the run:     *)
(* nothing in the source catches one.                                      *)
(***************************************************************************)
EXTENDS Integers, Sequences, FiniteSets, TLC

\* ---- bounds of the model -------------------------------------------------
MaxN == 7
MaxK == 4
MaxOps == 100
MaxTN == 6
MaxTK == 4
MaxNeg == 2
MaxWN == 10
MaxCN == 3
MaxCK == 2
MaxLN == 64
MaxQN == 8
MaxQK == 3

VARIABLES
    cls,                 \* which class the object under test is
    n, k,                \* constructor arguments, kept as fields
    n_sequences,         \* RecursiveCheckpointEnumerator.n_sequences
    levels,              \* HierarchicalBinaryTree.levels (depth d at index d+1)
    pos, ops,            \* position and operation counter
    checkpoint_indices,  \* RecursiveCheckpointEnumerator.checkpoint_indices
    checkpoints,         \* ProperLogNEnumerator.checkpoints (deque, maxlen k)
    direction,           \* ProperLogNEnumerator.direction
    call,                \* the last method called on the object
    ret,                 \* what that call produced: "True", "False", or the exception raised
    pc,                  \* where run_full_cycle is ("free": methods are called directly)
    nexts, prevs,        \* calls that returned True inside run_full_cycle
    fn, arg_n, arg_k,    \* the oracle function queried and its arguments
    answer,              \* what the query produced
    current,             \* NElementBiDiWrapper.current (a CountingIterator)
    saved_positions,     \* NElementBiDiWrapper.saved_positions
    distance,            \* NElementBiDiWrapper.distance
    operation_count,     \* CountingIterator.operation_count (class attribute)
    test,                \* which test of ncomplexity.py drives the wrapper
    loop_i,              \* index of the test's running for loop
    expected_pos,        \* test_correctness: expected_pos
    correct_steps        \* test_correctness: correct_steps

objVars == <<cls, n, k, n_sequences, levels, pos, ops, checkpoint_indices,
             checkpoints, direction>>
callVars == <<call, ret>>
cycleVars == <<pc, nexts, prevs>>
oracleVars == <<fn, arg_n, arg_k, answer>>
wrapperVars == <<current, saved_positions, distance, operation_count>>
testVars == <<test, loop_i, expected_pos, correct_steps>>
vars == <<cls, n, k, n_sequences, levels, pos, ops, checkpoint_indices,
          checkpoints, direction, call, ret, pc, nexts, prevs,
          fn, arg_n, arg_k, answer,
          current, saved_positions, distance, operation_count,
          test, loop_i, expected_pos, correct_steps>>

\* ---- Python list indexing ------------------------------------------------
PyIndexOk(s, i) == -Len(s) <= i /\ i < Len(s)

PyGet(s, i) == IF i >= 0 THEN s[i + 1] ELSE s[Len(s) + i + 1]

Zeros(len) == [i \in 1..len |-> 0]

EmptyMap == [x \in {} |-> <<>>]

\* ---- kcomplexity.py ------------------------------------------------------
RECURSIVE binomial_loop(_, _, _, _)
binomial_loop(bn, bk, i, result) ==
    IF i >= bk THEN result
    ELSE binomial_loop(bn, bk, i + 1, (result * (bn - i)) \div (i + 1))

binomial(bn, bk) ==
    IF bk > bn \/ bk < 0 THEN 0
    ELSE IF bk = 0 \/ bk = bn THEN 1
    ELSE LET kmin == IF bk <= bn - bk THEN bk ELSE bn - bk
         IN binomial_loop(bn, kmin, 0, 1)

RECURSIVE n_sequence_loop(_, _, _, _, _)
n_sequence_loop(m, i, val, limit, seq) ==
    IF val < limit
    THEN LET v == binomial(m + i - 1, m)
         IN n_sequence_loop(m, i + 1, v, limit, Append(seq, v))
    ELSE seq

\* [err, seq]: err when the span limit cannot be read off the level above
compute_n_sequence(nn, kk, m, seqs) ==
    IF m = kk
    THEN [err |-> FALSE, seq |-> n_sequence_loop(m, 1, 0, nn, <<>>)]
    ELSE LET up == seqs[m + 1]
             length == Len(up)
         IN IF ~PyIndexOk(up, length - 1) \/ ~PyIndexOk(up, length - 2)
            THEN [err |-> TRUE, seq |-> <<>>]
            ELSE LET limit == PyGet(up, length - 1) - PyGet(up, length - 2) - 1
                 IN [err |-> FALSE, seq |-> n_sequence_loop(m, 1, 0, limit, <<>>)]

\* the loop of __init__, from level kk down to level 1
RECURSIVE build_n_sequences(_, _, _, _)
build_n_sequences(nn, kk, m, seqs) ==
    IF m < 1 THEN [err |-> FALSE, seqs |-> seqs]
    ELSE LET r == compute_n_sequence(nn, kk, m, seqs)
         IN IF r.err THEN [err |-> TRUE, seqs |-> seqs]
            ELSE build_n_sequences(nn, kk, m - 1,
                     [x \in (DOMAIN seqs) \cup {m} |->
                          IF x = m THEN r.seq ELSE seqs[x]])

\* [err, val]: the sum of the slots' sequence values
RECURSIVE checkpoint_sum(_, _, _)
checkpoint_sum(indices, j, total) ==
    IF j >= k THEN [err |-> FALSE, val |-> total]
    ELSE LET seq == n_sequences[k - j]
             idx == indices[j + 1]
         IN IF ~PyIndexOk(seq, idx) THEN [err |-> TRUE, val |-> total]
            ELSE checkpoint_sum(indices, j + 1, total + PyGet(seq, idx))

get_checkpoint_position == checkpoint_sum(checkpoint_indices, 0, 0)

\* the search loop of _update_checkpoints: for i in range(start, len(seq)+1)
RECURSIVE search_idx(_, _, _, _)
search_idx(seq, i, idx, pos_at_level) ==
    IF i >= Len(seq) + 1 THEN [err |-> FALSE, idx |-> idx]
    ELSE IF ~PyIndexOk(seq, i) THEN [err |-> TRUE, idx |-> idx]
    ELSE IF PyGet(seq, i) <= pos_at_level
         THEN search_idx(seq, i + 1, i, pos_at_level)
         ELSE [err |-> FALSE, idx |-> idx]

\* the lower-anchor loop of _update_checkpoints, over every slot jj
RECURSIVE lower_anchor_loop(_, _, _, _, _)
lower_anchor_loop(indices, seq, idx, jj, lower_anchor) ==
    IF jj >= k THEN [err |-> FALSE, val |-> lower_anchor]
    ELSE LET seq_prev == n_sequences[k - jj]
             idx_prev == indices[jj + 1]
         IN IF ~PyIndexOk(seq_prev, idx_prev) \/ ~PyIndexOk(seq, idx)
            THEN [err |-> TRUE, val |-> lower_anchor]
            ELSE LET candidate == PyGet(seq_prev, idx_prev)
                 IN lower_anchor_loop(indices, seq, idx, jj + 1,
                        IF candidate < PyGet(seq, idx) /\ candidate > lower_anchor
                        THEN candidate ELSE lower_anchor)

\* cost charged when slot j moves to idx
slot_cost_from_zero(seq, idx, lower_anchor) == PyGet(seq, idx)

slot_cost(seq, idx, lower_anchor) == PyGet(seq, idx) - lower_anchor

\* _update_checkpoints from slot j on: [err, indices, ops]
RECURSIVE update_checkpoints(_, _, _, _)
update_checkpoints(j, indices, o, pos_at_level) ==
    IF j >= k THEN [err |-> FALSE, indices |-> indices, ops |-> o]
    ELSE
      LET seq == n_sequences[k - j]
          start == IF indices[j + 1] = 0 THEN 0 ELSE indices[j + 1] - 1
          s == search_idx(seq, start, 0, pos_at_level)
      IN IF s.err THEN [err |-> TRUE, indices |-> indices, ops |-> o]
         ELSE
           LET idx == s.idx
               la == IF indices[j + 1] # idx
                     THEN lower_anchor_loop(indices, seq, idx, 0, 0)
                     ELSE [err |-> FALSE, val |-> 0]
           IN IF la.err THEN [err |-> TRUE, indices |-> indices, ops |-> o]
              ELSE
                LET o2 == IF indices[j + 1] # idx
                          THEN o + slot_cost(seq, idx, la.val) ELSE o
                    indices2 == [indices EXCEPT ![j + 1] = idx]
                    pal2 == IF idx < Len(seq)
                            THEN pos_at_level - PyGet(seq, idx)
                            ELSE pos_at_level
                IN update_checkpoints(j + 1, indices2, o2, pal2)

\* the guards of next() and prev()
Recursive_at_end_gt(p) == p > n

Recursive_at_end(p) == p >= n

Recursive_at_start(p) == p <= 0

\* next(): the guard, the raw step, then _update_checkpoints
Recursive_next ==
    /\ call' = "next"
    /\ IF Recursive_at_end(pos)
       THEN /\ ret' = "False"
            /\ UNCHANGED objVars
       ELSE LET u == update_checkpoints(0, checkpoint_indices, ops + 1, pos + 1)
            IN /\ pos' = pos + 1
               /\ ops' = u.ops
               /\ checkpoint_indices' = u.indices
               /\ ret' = IF u.err THEN "IndexError" ELSE "True"
               /\ UNCHANGED <<cls, n, k, n_sequences, levels, checkpoints, direction>>

\* the deepest slot with a nonzero index, or -1
RECURSIVE deepest_nonzero(_, _)
deepest_nonzero(indices, j) ==
    IF j < 0 THEN -1
    ELSE IF indices[j + 1] > 0 THEN j
    ELSE deepest_nonzero(indices, j - 1)

\* prev_checkpoints: slot j one index back, every deeper slot at its last index
decrement_slot(indices, j) ==
    [x \in 1..Len(indices) |->
        IF x - 1 < j THEN indices[x]
        ELSE IF x - 1 = j THEN indices[x] - 1
        ELSE Len(n_sequences[k - (x - 1)]) - 1]

prev_cost(target, prev_pos) == IF target >= prev_pos THEN target - prev_pos ELSE 0

Recursive_prev ==
    /\ call' = "prev"
    /\ IF Recursive_at_start(pos)
       THEN /\ ret' = "False"
            /\ UNCHANGED objVars
       ELSE LET target == pos - 1
                j == deepest_nonzero(checkpoint_indices, k - 1)
            IN IF j = -1
               THEN /\ pos' = 0
                    /\ checkpoint_indices' = Zeros(k)
                    /\ ret' = "True"
                    /\ UNCHANGED <<cls, n, k, n_sequences, levels, ops,
                                   checkpoints, direction>>
               ELSE LET prev_checkpoints == decrement_slot(checkpoint_indices, j)
                        prev_pos == checkpoint_sum(prev_checkpoints, 0, 0)
                    IN IF prev_pos.err
                       THEN /\ ret' = "IndexError"
                            /\ UNCHANGED objVars
                       ELSE /\ ops' = ops + prev_cost(target, prev_pos.val)
                            /\ pos' = target
                            /\ checkpoint_indices' = prev_checkpoints
                            /\ ret' = "True"
                            /\ UNCHANGED <<cls, n, k, n_sequences, levels,
                                           checkpoints, direction>>

\* RecursiveCheckpointEnumerator(nn, kk)
Recursive_init(nn, kk) ==
    LET b == build_n_sequences(nn, kk, kk, EmptyMap)
    IN /\ cls = "Recursive"
       /\ n = nn
       /\ k = kk
       /\ pos = 0
       /\ ops = 0
       /\ n_sequences = b.seqs
       /\ checkpoint_indices = IF b.err THEN <<>> ELSE Zeros(kk)
       /\ levels = <<>>
       /\ checkpoints = <<>>
       /\ direction = TRUE
       /\ call = "__init__"
       /\ ret = IF b.err THEN "IndexError" ELSE "None"

\* ---- logncomplexity.py ---------------------------------------------------
SeqToSet(s) == {s[i] : i \in 1..Len(s)}

\* sorted(set(...))
RECURSIVE sorted_set(_)
sorted_set(S) ==
    IF S = {} THEN <<>>
    ELSE LET mn == CHOOSE x \in S : \A y \in S : x <= y
         IN <<mn>> \o sorted_set(S \ {mn})

\* level 0 of _build_levels before n is added: 1, 2, 4, ... <= nn
RECURSIVE powers_of_two(_, _, _)
powers_of_two(p, nn, level_0) ==
    IF p <= nn THEN powers_of_two(p * 2, nn, Append(level_0, p))
    ELSE level_0

\* the midpoints of adjacent entries that differ from both ends
RECURSIVE midpoints(_, _, _)
midpoints(current_level, i, next_level) ==
    IF i >= Len(current_level) - 1 THEN next_level
    ELSE LET low == PyGet(current_level, i)
             high == PyGet(current_level, i + 1)
             mid == (low + high) \div 2
         IN midpoints(current_level, i + 1,
                IF mid # low /\ mid # high THEN Append(next_level, mid)
                ELSE next_level)

\* the while loop of _build_levels
RECURSIVE deeper_levels(_, _)
deeper_levels(current_level, lv) ==
    IF Len(current_level) > 1
    THEN LET next_level == midpoints(current_level, 0, <<>>)
         IN IF next_level = <<>> THEN lv
            ELSE deeper_levels(
                     sorted_set(SeqToSet(current_level) \cup SeqToSet(next_level)),
                     Append(lv, sorted_set(SeqToSet(next_level))))
    ELSE lv

\* [err, levels]: level_0[-1] raises on the empty list
build_levels_without_n(nn) ==
    LET p2 == powers_of_two(1, nn, <<>>)
    IN IF ~PyIndexOk(p2, -1) THEN [err |-> TRUE, levels |-> <<>>]
       ELSE [err |-> FALSE,
             levels |-> deeper_levels(p2, <<sorted_set(SeqToSet(p2))>>)]

build_levels(nn) ==
    LET p2 == powers_of_two(1, nn, <<>>)
    IN IF ~PyIndexOk(p2, -1) THEN [err |-> TRUE, levels |-> <<>>]
       ELSE LET level_0 == IF PyGet(p2, -1) # nn THEN Append(p2, nn) ELSE p2
            IN [err |-> FALSE,
                levels |-> deeper_levels(level_0, <<sorted_set(SeqToSet(level_0))>>)]

\* sorted(set(pos for d in self.tree.levels.values() for pos in d))
all_positions == sorted_set(UNION {SeqToSet(levels[d]) : d \in 1..Len(levels)})

positions_up_to(p) == SelectSeq(all_positions, LAMBDA x : x <= p)

\* deque(items, maxlen)
deque_append_unbounded(dq, x, maxlen) == Append(dq, x)

deque_append(dq, x, maxlen) ==
    IF maxlen = 0 THEN dq
    ELSE IF Len(dq) = maxlen THEN Append(Tail(dq), x)
    ELSE Append(dq, x)

deque_pop(dq) == SubSeq(dq, 1, Len(dq) - 1)

\* math.ceil(math.log2(nn)) for nn >= 1
RECURSIVE ceil_log2(_, _)
ceil_log2(nn, c) == IF 2 ^ c >= nn THEN c ELSE ceil_log2(nn, c + 1)

default_k(nn) ==
    LET l == IF nn > 0 THEN ceil_log2(nn, 0) ELSE 0
    IN IF l > 1 THEN l ELSE 1

\* does next() insert: more tree positions behind pos than checkpoints held
reached_new_checkpoint(positions_up_to_here, window) ==
    Len(positions_up_to_here) > Len(window)

\* the guards of next() and prev()
ProperLogN_at_end(p) == p >= n

ProperLogN_at_start_lt(p) == p < 0

ProperLogN_at_start(p) == p <= 0

ProperLogN_next ==
    /\ call' = "next"
    /\ IF ProperLogN_at_end(pos)
       THEN /\ ret' = "False"
            /\ UNCHANGED objVars
       ELSE LET positions_up_to_here == positions_up_to(pos + 1)
                new_cp == IF positions_up_to_here # <<>>
                          THEN PyGet(positions_up_to_here, -1) ELSE pos + 1
            IN /\ pos' = pos + 1
               /\ ops' = ops + 1
               /\ direction' = TRUE
               /\ checkpoints' =
                      IF /\ reached_new_checkpoint(positions_up_to_here, checkpoints)
                         /\ new_cp \notin SeqToSet(checkpoints)
                      THEN deque_append(checkpoints, new_cp, k)
                      ELSE checkpoints
               /\ ret' = "True"
               /\ UNCHANGED <<cls, n, k, n_sequences, levels, checkpoint_indices>>

\* does prev() drop the newest checkpoint
losing_checkpoint_le(positions_up_to_target, window) ==
    Len(positions_up_to_target) <= Len(window)

losing_checkpoint(positions_up_to_target, window) ==
    Len(positions_up_to_target) < Len(window)

cost_to_restore_rev(removed_cp, target) == target - removed_cp

cost_to_restore(removed_cp, target) == removed_cp - target

ProperLogN_prev ==
    /\ call' = "prev"
    /\ IF ProperLogN_at_start(pos)
       THEN /\ ret' = "False"
            /\ UNCHANGED objVars
       ELSE LET target == pos - 1
                positions_up_to_target == positions_up_to(target)
            IN /\ direction' = FALSE
               /\ UNCHANGED <<cls, n, k, n_sequences, levels, checkpoint_indices>>
               /\ IF losing_checkpoint(positions_up_to_target, checkpoints)
                  THEN IF ~PyIndexOk(checkpoints, -1)
                       THEN /\ ret' = "IndexError"
                            /\ UNCHANGED <<pos, ops, checkpoints>>
                       ELSE LET removed_cp == PyGet(checkpoints, -1)
                            IN /\ checkpoints' = IF Len(checkpoints) > 0
                                                 THEN deque_pop(checkpoints)
                                                 ELSE checkpoints
                               /\ ops' = IF Len(checkpoints) > 0
                                         THEN ops + cost_to_restore(removed_cp, target)
                                         ELSE ops
                               /\ pos' = target
                               /\ ret' = "True"
                  ELSE /\ ops' = ops + 1
                       /\ pos' = target
                       /\ ret' = "True"
                       /\ UNCHANGED checkpoints

\* ProperLogNEnumerator(nn, kk); kk is default_k(nn) when k is not given.
\* The tree is built first (IndexError for nn <= 0); deque(maxlen=kk) then
\* raises ValueError for a negative kk.
ProperLogN_init(nn, kk) ==
    LET t == build_levels(nn)
        bad_maxlen == ~t.err /\ kk < 0
    IN /\ cls = "ProperLogN"
       /\ n = nn
       /\ k = kk
       /\ pos = 0
       /\ ops = 0
       /\ levels = t.levels
       /\ checkpoints = IF t.err \/ bad_maxlen THEN <<>>
                        ELSE deque_append(<<>>, 0, kk)
       /\ direction = TRUE
       /\ n_sequences = EmptyMap
       /\ checkpoint_indices = <<>>
       /\ call = "__init__"
       /\ ret = IF t.err THEN "IndexError"
                ELSE IF bad_maxlen THEN "ValueError"
                ELSE "None"

\* ---- enum2.py ------------------------------------------------------------
\* A value of the oracle: an int, float('inf'), None, or the exception raised.
Fin(v) == [kind |-> "int", val |-> v]

inf == [kind |-> "inf", val |-> 0]

None == [kind |-> "None", val |-> 0]

Raise(e) == [kind |-> e, val |-> 0]

Pending == [kind |-> "pending", val |-> 0]

IsCost(v) == v.kind \in {"int", "inf"}

IsError(v) == v.kind \in {"ValueError", "AssertionError"}

\* a + b on costs
py_add(a, b) ==
    IF a.kind = "inf" \/ b.kind = "inf" THEN inf ELSE Fin(a.val + b.val)

\* a < b on costs
py_lt(a, b) ==
    IF a.kind = "inf" THEN FALSE
    ELSE IF b.kind = "inf" THEN TRUE
    ELSE a.val < b.val

\* a - v < 0 on costs: inf - inf is nan, and nan < 0 is False
diff_lt_0(a, v) ==
    IF a.kind = "inf" THEN FALSE
    ELSE IF v.kind = "inf" THEN TRUE
    ELSE a.val - v.val < 0

\* a - v <= 0 on costs: nan <= 0 is False
diff_le_0(a, v) ==
    IF a.kind = "inf" THEN FALSE
    ELSE IF v.kind = "inf" THEN TRUE
    ELSE a.val - v.val <= 0

\* the first exception among the elements, if any
first_error(l) ==
    IF \E i \in 1..Len(l) : IsError(l[i])
    THEN l[CHOOSE i \in 1..Len(l) : IsError(l[i]) /\ \A h \in 1..(i - 1) : ~IsError(l[h])]
    ELSE None

\* min(l): the first smallest element
RECURSIVE py_min_loop(_, _, _)
py_min_loop(l, i, v) ==
    IF i > Len(l) THEN v
    ELSE py_min_loop(l, i + 1, IF py_lt(l[i], v) THEN l[i] ELSE v)

py_min(l) ==
    IF IsError(first_error(l)) THEN first_error(l)
    ELSE IF Len(l) = 0 THEN Raise("ValueError")
    ELSE py_min_loop(l, 2, l[1])

RECURSIVE argmin_l_loop(_, _, _, _)
argmin_l_loop(l, i, p, v) ==
    IF i >= Len(l) THEN p
    ELSE IF diff_lt_0(PyGet(l, i), v)
         THEN argmin_l_loop(l, i + 1, i, PyGet(l, i))
         ELSE argmin_l_loop(l, i + 1, p, v)

argmin_l(l) ==
    IF IsError(first_error(l)) THEN first_error(l)
    ELSE IF ~(Len(l) > 0) THEN Raise("AssertionError")
    ELSE Fin(argmin_l_loop(l, 0, 0, PyGet(l, 0)))

RECURSIVE argmin_r_loop(_, _, _, _)
argmin_r_loop(l, i, p, v) ==
    IF i >= Len(l) THEN p
    ELSE IF diff_le_0(PyGet(l, i), v)
         THEN argmin_r_loop(l, i + 1, i, PyGet(l, i))
         ELSE argmin_r_loop(l, i + 1, p, v)

argmin_r(l) ==
    IF IsError(first_error(l)) THEN first_error(l)
    ELSE IF ~(Len(l) > 0) THEN Raise("AssertionError")
    ELSE Fin(argmin_r_loop(l, 0, 0, PyGet(l, 0)))

RECURSIVE T(_, _)

\* x + T(n - x, k - 1) + T(x - 1, k)
option(x, a, b) ==
    IF IsError(a) THEN a
    ELSE IF IsError(b) THEN b
    ELSE py_add(py_add(Fin(x), a), b)

option_list_swapped(nn, kk) ==
    [x \in 1..nn |-> option(x, T(kk - 1, nn - x), T(x - 1, kk))]

option_list(nn, kk) ==
    [x \in 1..nn |-> option(x, T(nn - x, kk - 1), T(x - 1, kk))]

T_base_swapped(nn, kk) ==
    IF kk = 0 THEN inf
    ELSE IF nn = 0 THEN Fin(0)
    ELSE py_min(option_list(nn, kk))

T(nn, kk) ==
    IF nn = 0 THEN Fin(0)
    ELSE IF kk = 0 THEN inf
    ELSE py_min(option_list(nn, kk))

optimal_x_l(nn, kk) ==
    IF nn = 0 THEN None
    ELSE IF kk = 0 THEN None
    ELSE argmin_l(option_list(nn, kk))

optimal_x_r(nn, kk) ==
    IF nn = 0 THEN None
    ELSE IF kk = 0 THEN None
    ELSE argmin_r(option_list(nn, kk))

NoQuery ==
    /\ fn = "none"
    /\ arg_n = 0
    /\ arg_k = 0
    /\ answer = Pending

\* ---- ncomplexity.py ------------------------------------------------------
CountingIterator(p) == [pos |-> p]

clone(it) == CountingIterator(it.pos)

CountingIterator_next(it) == [it EXCEPT !.pos = it.pos + 1]

CountingIterator_prev(it) == [it EXCEPT !.pos = it.pos + 1]

count_next(count) == count + 1

count_prev_uncounted(count) == count

count_prev(count) == count + 1

reset_count == 0

NElementBiDiWrapper_init(start_iterator, nn) ==
    /\ cls = "NElementBiDiWrapper"
    /\ n = nn
    /\ current = start_iterator
    /\ saved_positions = <<>>
    /\ distance = 0

NElementBiDiWrapper_next ==
    /\ distance' = distance + 1
    /\ saved_positions' = Append(saved_positions, clone(current))
    /\ current' = CountingIterator_next(current)
    /\ operation_count' = count_next(operation_count)
    /\ call' = "next"
    /\ ret' = "None"

NElementBiDiWrapper_prev ==
    /\ call' = "prev"
    /\ IF Len(saved_positions) = 0
       THEN /\ ret' = "ValueError"
            /\ UNCHANGED wrapperVars
       ELSE /\ distance' = distance - 1
            /\ saved_positions' = SubSeq(saved_positions, 1, Len(saved_positions) - 1)
            /\ current' = CountingIterator_prev(current)
            /\ operation_count' = count_prev(operation_count)
            /\ ret' = "None"

NoWrapper ==
    /\ current = CountingIterator(0)
    /\ saved_positions = <<>>
    /\ distance = 0
    /\ operation_count = 0
    /\ test = "none"
    /\ loop_i = 0
    /\ expected_pos = 0
    /\ correct_steps = 0

\* ---- calling the methods in any order -----------------------------------
Raised == ret \notin {"None", "True", "False"}

Construct ==
    \E nn \in 0..MaxN, kk \in 0..MaxK :
        \/ Recursive_init(nn, kk)
        \/ ProperLogN_init(nn, kk)
        \/ ProperLogN_init(nn, default_k(nn))

Init ==
    /\ Construct
    /\ pc = "free"
    /\ nexts = 0
    /\ prevs = 0
    /\ NoQuery
    /\ NoWrapper

CallRecursiveNext ==
    /\ pc = "free" /\ cls = "Recursive" /\ ~Raised /\ ops < MaxOps
    /\ Recursive_next
    /\ UNCHANGED <<cycleVars, oracleVars, wrapperVars, testVars>>

CallRecursivePrev ==
    /\ pc = "free" /\ cls = "Recursive" /\ ~Raised /\ ops < MaxOps
    /\ Recursive_prev
    /\ UNCHANGED <<cycleVars, oracleVars, wrapperVars, testVars>>

CallProperLogNNext ==
    /\ pc = "free" /\ cls = "ProperLogN" /\ ~Raised /\ ops < MaxOps
    /\ ProperLogN_next
    /\ UNCHANGED <<cycleVars, oracleVars, wrapperVars, testVars>>

CallProperLogNPrev ==
    /\ pc = "free" /\ cls = "ProperLogN" /\ ~Raised /\ ops < MaxOps
    /\ ProperLogN_prev
    /\ UNCHANGED <<cycleVars, oracleVars, wrapperVars, testVars>>

Next ==
    \/ CallRecursiveNext
    \/ CallRecursivePrev
    \/ CallProperLogNNext
    \/ CallProperLogNPrev

Spec == Init /\ [][Next]_vars

\* ---- constructing with any arguments, then calling the methods -----------
ConstructAnyArgs ==
    \E nn \in (-MaxNeg)..MaxCN, kk \in (-MaxNeg)..MaxCK :
        \/ Recursive_init(nn, kk)
        \/ ProperLogN_init(nn, kk)
        \/ ProperLogN_init(nn, default_k(nn))

InitAnyArgs ==
    /\ ConstructAnyArgs
    /\ pc = "free"
    /\ nexts = 0
    /\ prevs = 0
    /\ NoQuery
    /\ NoWrapper

SpecAnyArgs == InitAnyArgs /\ [][Next]_vars

\* ---- run_full_cycle ------------------------------------------------------
\* while self.next(): pass  --  one call per step; on False the loop is left
after_next_loop == IF pos' > 0 THEN "prev_loop" ELSE "done"

after_prev_call == IF pos' > 0 THEN "prev_loop" ELSE "done"

InitCycle ==
    /\ Construct
    /\ pc = "next_loop"
    /\ nexts = 0
    /\ prevs = 0
    /\ NoQuery
    /\ NoWrapper

CycleBookkeeping(loop) ==
    /\ pc' = IF Raised' THEN pc
             ELSE IF loop = "next_loop"
                  THEN (IF ret' = "True" THEN "next_loop" ELSE after_next_loop)
                  ELSE after_prev_call
    /\ nexts' = IF loop = "next_loop" /\ ret' = "True" THEN nexts + 1 ELSE nexts
    /\ prevs' = IF loop = "prev_loop" /\ ret' = "True" THEN prevs + 1 ELSE prevs
    /\ UNCHANGED <<oracleVars, wrapperVars, testVars>>

Recursive_cycle_next ==
    /\ pc = "next_loop" /\ cls = "Recursive" /\ ~Raised
    /\ Recursive_next
    /\ CycleBookkeeping("next_loop")

Recursive_cycle_prev ==
    /\ pc = "prev_loop" /\ cls = "Recursive" /\ ~Raised
    /\ Recursive_prev
    /\ CycleBookkeeping("prev_loop")

ProperLogN_cycle_next ==
    /\ pc = "next_loop" /\ cls = "ProperLogN" /\ ~Raised
    /\ ProperLogN_next
    /\ CycleBookkeeping("next_loop")

ProperLogN_cycle_prev ==
    /\ pc = "prev_loop" /\ cls = "ProperLogN" /\ ~Raised
    /\ ProperLogN_prev
    /\ CycleBookkeeping("prev_loop")

NextCycle ==
    \/ Recursive_cycle_next
    \/ Recursive_cycle_prev
    \/ ProperLogN_cycle_next
    \/ ProperLogN_cycle_prev

\* the two loops of run_full_cycle keep running until they exit
SpecCycle == InitCycle /\ [][NextCycle]_vars /\ WF_vars(NextCycle)

\* ---- the benchmark of kcomplexity.py (__main__) ---------------------------
BenchK == 10

BenchSizes == {32, 128, 512, 2048, 4096}

InitBench ==
    /\ \E nn \in BenchSizes : Recursive_init(nn, BenchK)
    /\ pc = "next_loop"
    /\ nexts = 0
    /\ prevs = 0
    /\ NoQuery
    /\ NoWrapper

NextBench == Recursive_cycle_next \/ Recursive_cycle_prev

SpecBench == InitBench /\ [][NextBench]_vars

\* ---- full cycles whose ops is compared with the oracle --------------------
InitCompare ==
    /\ \E nn \in 1..MaxQN, kk \in 1..MaxQK : Recursive_init(nn, kk)
    /\ pc = "next_loop"
    /\ nexts = 0
    /\ prevs = 0
    /\ NoQuery
    /\ NoWrapper

SpecCompare == InitCompare /\ [][NextBench]_vars

\* ---- querying the oracle --------------------------------------------------
NoObject ==
    /\ cls = "Oracle"
    /\ n = 0
    /\ k = 0
    /\ n_sequences = EmptyMap
    /\ levels = <<>>
    /\ pos = 0
    /\ ops = 0
    /\ checkpoint_indices = <<>>
    /\ checkpoints = <<>>
    /\ direction = TRUE
    /\ call = "none"
    /\ ret = "None"
    /\ pc = "oracle"
    /\ nexts = 0
    /\ prevs = 0

InitOracle ==
    /\ NoObject
    /\ fn \in {"T", "optimal_x_l", "optimal_x_r"}
    /\ arg_n \in (-MaxNeg)..MaxTN
    /\ arg_k \in (-MaxNeg)..MaxTK
    /\ answer = Pending
    /\ NoWrapper

QueryT ==
    /\ fn = "T" /\ answer = Pending
    /\ answer' = T(arg_n, arg_k)
    /\ UNCHANGED <<objVars, callVars, cycleVars, fn, arg_n, arg_k,
                   wrapperVars, testVars>>

QueryOptimalXL ==
    /\ fn = "optimal_x_l" /\ answer = Pending
    /\ answer' = optimal_x_l(arg_n, arg_k)
    /\ UNCHANGED <<objVars, callVars, cycleVars, fn, arg_n, arg_k,
                   wrapperVars, testVars>>

QueryOptimalXR ==
    /\ fn = "optimal_x_r" /\ answer = Pending
    /\ answer' = optimal_x_r(arg_n, arg_k)
    /\ UNCHANGED <<objVars, callVars, cycleVars, fn, arg_n, arg_k,
                   wrapperVars, testVars>>

NextOracle == QueryT \/ QueryOptimalXL \/ QueryOptimalXR

SpecOracle == InitOracle /\ [][NextOracle]_vars

\* ---- the tests of ncomplexity.py ------------------------------------------
\* the fields of the enumerators, which the wrapper does not have
unusedByWrapper == <<k, n_sequences, levels, pos, ops, checkpoint_indices,
                     checkpoints, direction, nexts, prevs>>

InitBaseline ==
    /\ \E nn \in 1..MaxWN : NElementBiDiWrapper_init(CountingIterator(0), nn)
    /\ operation_count = 0
    /\ test \in {"test_correctness", "test_complexity"}
    /\ pc = "forward"
    /\ loop_i = 0
    /\ expected_pos = 0
    /\ correct_steps = 0
    /\ k = 0
    /\ n_sequences = EmptyMap
    /\ levels = <<>>
    /\ pos = 0
    /\ ops = 0
    /\ checkpoint_indices = <<>>
    /\ checkpoints = <<>>
    /\ direction = TRUE
    /\ call = "__init__"
    /\ ret = "None"
    /\ nexts = 0
    /\ prevs = 0
    /\ NoQuery

\* for i in range(n): wrapper.next()
ForwardStep ==
    /\ pc = "forward" /\ loop_i < n /\ ~Raised
    /\ NElementBiDiWrapper_next
    /\ loop_i' = loop_i + 1
    /\ UNCHANGED <<cls, n, unusedByWrapper, oracleVars, pc, test,
                   expected_pos, correct_steps>>

\* between the two loops: test_correctness sets expected_pos and
\* correct_steps, test_complexity resets the class counter
BetweenLoops ==
    /\ pc = "forward" /\ loop_i = n /\ ~Raised
    /\ IF test = "test_correctness"
       THEN /\ expected_pos' = n
            /\ correct_steps' = 0
            /\ UNCHANGED operation_count
       ELSE /\ operation_count' = reset_count
            /\ UNCHANGED <<expected_pos, correct_steps>>
    /\ pc' = "backward"
    /\ loop_i' = 0
    /\ UNCHANGED <<cls, n, unusedByWrapper, oracleVars, callVars, test,
                   current, saved_positions, distance>>

\* for i in range(n): wrapper.prev(), and in test_correctness the comparison
BackwardStep ==
    /\ pc = "backward" /\ loop_i < n /\ ~Raised
    /\ NElementBiDiWrapper_prev
    /\ IF Raised'
       THEN UNCHANGED <<pc, loop_i, expected_pos, correct_steps>>
       ELSE /\ loop_i' = loop_i + 1
            /\ pc' = IF loop_i' = n THEN "done" ELSE "backward"
            /\ IF test = "test_correctness"
               THEN /\ expected_pos' = expected_pos - 1
                    /\ correct_steps' =
                          IF distance' = expected_pos' /\ expected_pos' = current'.pos
                          THEN correct_steps + 1
                          ELSE correct_steps
               ELSE UNCHANGED <<expected_pos, correct_steps>>
    /\ UNCHANGED <<cls, n, unusedByWrapper, oracleVars, test>>

NextBaseline == ForwardStep \/ BetweenLoops \/ BackwardStep

SpecBaseline == InitBaseline /\ [][NextBaseline]_vars

\* ---- building a HierarchicalBinaryTree ------------------------------------
\* HierarchicalBinaryTree(nn) is about to run: self.n is set, levels not yet
InitTree ==
    /\ cls = "HierarchicalBinaryTree"
    /\ n \in (-MaxNeg)..MaxLN
    /\ levels = <<>>
    /\ call = "__init__"
    /\ ret = "None"
    /\ pc = "tree"
    /\ k = 0
    /\ n_sequences = EmptyMap
    /\ pos = 0
    /\ ops = 0
    /\ checkpoint_indices = <<>>
    /\ checkpoints = <<>>
    /\ direction = TRUE
    /\ nexts = 0
    /\ prevs = 0
    /\ NoQuery
    /\ NoWrapper

\* self.levels = self._build_levels()
BuildLevels ==
    /\ pc = "tree" /\ call = "__init__"
    /\ LET t == build_levels(n)
       IN /\ levels' = t.levels
          /\ ret' = IF t.err THEN "IndexError" ELSE "None"
    /\ call' = "_build_levels"
    /\ UNCHANGED <<cls, n, k, n_sequences, pos, ops, checkpoint_indices,
                   checkpoints, direction, cycleVars, oracleVars,
                   wrapperVars, testVars>>

NextTree == BuildLevels

SpecTree == InitTree /\ [][NextTree]_vars

\* ---- properties -----------------------------------------------------------
IsEnumerator == cls \in {"Recursive", "ProperLogN"}

Returned == call \in {"next", "prev"} /\ ret \in {"True", "False"}

Answered == answer # Pending

py_le(a, b) == ~py_lt(b, a)

\* C1: for n >= 1 and k >= 1 every next() and prev() that run_full_cycle makes
\* on a RecursiveCheckpointEnumerator returns a boolean, and pos is 0 when the
\* cycle ends.
C1_RecursiveCycleCompletes ==
    (cls = "Recursive" /\ n >= 1 /\ k >= 1 /\ call \in {"next", "prev"}) =>
        /\ ret \in {"True", "False"}
        /\ (pc = "done" => pos = 0)

\* C2: after every next() or prev() of a RecursiveCheckpointEnumerator that
\* returns, the sum of the slots' sequence values equals pos.
C2_PositionReconstruction ==
    (cls = "Recursive" /\ n >= 1 /\ k >= 1 /\ Returned) =>
        get_checkpoint_position = [err |-> FALSE, val |-> pos]

\* the splits x in 1..nn at which the recurrence attains T(nn, kk)
minimizers(nn, kk) ==
    {x \in 1..nn : option_list(nn, kk)[x] = T(nn, kk)}

\* C3: for n >= 1 and k >= 1, optimal_x_l returns the smallest and
\* optimal_x_r the largest split x in 1..n at which the recurrence equals
\* T(n, k); T(4, 2) = 6 and optimal_x_l(4, 2) = 2.
C3_SplitsAreExtremeMinimizers ==
    /\ (fn = "T" /\ Answered /\ arg_n = 4 /\ arg_k = 2) => answer = Fin(6)
    /\ (fn \in {"optimal_x_l", "optimal_x_r"} /\ Answered /\ arg_n >= 1 /\ arg_k >= 1) =>
          /\ answer.kind = "int"
          /\ answer.val \in minimizers(arg_n, arg_k)
          /\ fn = "optimal_x_l" => \A x \in minimizers(arg_n, arg_k) : answer.val <= x
          /\ fn = "optimal_x_r" => \A x \in minimizers(arg_n, arg_k) : answer.val >= x

\* C4: T(0, k) = 0 for every k >= 0, T(n, 0) = +infinity for every n > 0, and
\* T(n, 1) = n(n+1)/2 for every n >= 0.
C4_DegenerateCases ==
    (fn = "T" /\ Answered) =>
        /\ (arg_n = 0 /\ arg_k >= 0) => answer = Fin(0)
        /\ (arg_n > 0 /\ arg_k = 0) => answer = inf
        /\ (arg_n >= 0 /\ arg_k = 1) => answer = Fin((arg_n * (arg_n + 1)) \div 2)

C4_Witness ==
    fn = "T" /\ arg_n = 3 /\ arg_k = 1 /\ answer = Fin(6)

\* C5: for n >= 0 and k >= 1, T(n, k) is a cost with T(n, k) >= T(n, k+1) and
\* T(n, k) <= T(n+1, k).
C5_Monotone ==
    (fn = "T" /\ Answered /\ arg_n >= 0 /\ arg_k >= 1) =>
        /\ IsCost(answer)
        /\ py_le(T(arg_n, arg_k + 1), answer)
        /\ py_le(answer, T(arg_n + 1, arg_k))

C5_Witness ==
    /\ fn = "T" /\ arg_n = 4 /\ arg_k = 2 /\ answer = Fin(6)
    /\ py_lt(T(4, 3), answer)
    /\ py_lt(answer, T(5, 2))

\* C6: T(n, k) with n < 0 or k < 0 fails with an error; it never returns a
\* cost.
C6_NegativeArgumentsFail ==
    (fn = "T" /\ Answered /\ (arg_n < 0 \/ arg_k < 0)) => IsError(answer)

\* C7: for n >= 1 and k >= 1 (the default k included), run_full_cycle of a
\* ProperLogNEnumerator ends with pos = 0 after exactly n successful next()
\* calls followed by exactly n successful prev() calls, and no call raises.
\* The counters are tied to pos in both loops and the cycle is never stuck
\* before done, so it cannot run forever.
C7_TreeCycleCompletes ==
    (cls = "ProperLogN" /\ n >= 1 /\ k >= 1) =>
        /\ ~Raised
        /\ 0 <= pos /\ pos <= n
        /\ (pc = "next_loop" => nexts = pos /\ prevs = 0)
        /\ (pc = "prev_loop" => nexts = n /\ prevs = n - pos /\ pos > 0)
        /\ (pc = "done" => pos = 0 /\ nexts = n /\ prevs = n)
        /\ (pc # "done" => ENABLED NextCycle)

C7_Witness ==
    /\ cls = "ProperLogN" /\ n >= 3 /\ k >= 1
    /\ pc = "done" /\ pos = 0 /\ nexts = n /\ prevs = n
    /\ ops > 2 * n

\* C8: 0 <= pos <= n in every state both enumerators reach by any
\* interleaving of next() and prev().
C8_PositionInRange ==
    IsEnumerator => (0 <= pos /\ pos <= n)

C8_Witness ==
    /\ cls = "Recursive" /\ n >= 4 /\ k >= 2
    /\ call = "next" /\ ret = "True" /\ pos = n

\* C9: in both enumerators next() at pos = n and prev() at pos = 0 return
\* False and leave pos, ops, the slot indices and the window as they were.
C9_BoundaryNoOp ==
    [][/\ (IsEnumerator /\ call' = "next" /\ pos = n) =>
            (ret' = "False" /\ UNCHANGED objVars)
       /\ (IsEnumerator /\ call' = "prev" /\ pos = 0) =>
            (ret' = "False" /\ UNCHANGED objVars)]_vars

C9_Witness ==
    /\ cls = "ProperLogN" /\ n >= 2
    /\ call = "prev" /\ ret = "False" /\ pos = 0
    /\ ops >= 2 * n

\* C10: no next() or prev() of either enumerator, in any interleaving,
\* lowers ops; the tree enumerator's eviction charge is never negative.
C10_OpsNeverDecrease ==
    [][IsEnumerator => ops' >= ops]_vars

C10_Witness ==
    /\ cls = "ProperLogN" /\ k >= 2 /\ n >= 3
    /\ call = "prev" /\ ret = "True"
    /\ checkpoints = <<>> /\ pos = 0
    /\ ops >= 2 * n

IsWrapper == cls = "NElementBiDiWrapper"

\* C11: every next() and prev() of the baseline wrapper over a CountingIterator
\* adds exactly 1 to operation_count; the n next() and n prev() of a full cycle
\* count 2n, and the n prev() alone, counted from the reset of test_complexity,
\* count n.
C11_BaselineCountsEveryMove ==
    [][IsWrapper =>
        /\ (loop_i' = loop_i + 1) => (operation_count' = operation_count + 1)
        /\ (pc' = "done" /\ test = "test_correctness") => (operation_count' = 2 * n)
        /\ (pc' = "done" /\ test = "test_complexity") => (operation_count' = n)]_vars

C11_Witness ==
    /\ IsWrapper /\ test = "test_correctness" /\ pc = "done"
    /\ n >= 3 /\ call = "prev" /\ operation_count = 2 * n

\* C12: in test_correctness, after the n next() calls distance and current.pos
\* are both n, and after each of the j following prev() calls (1 <= j <= n)
\* they are both n - j.
C12_DistanceIsPosition ==
    (IsWrapper /\ test = "test_correctness" /\ pc \in {"backward", "done"}) =>
        /\ distance = n - loop_i
        /\ current.pos = n - loop_i

\* C13: constructing either enumerator with a negative n, a negative k, or
\* k = 0 with n > 0 raises; no instance exists, so no state has such
\* arguments on anything but the failed constructor call.
C13_InvalidArgumentsFailFast ==
    (IsEnumerator /\ (n < 0 \/ k < 0 \/ (k = 0 /\ n > 0))) =>
        (call = "__init__" /\ Raised)

\* Pascal's rule, for stating what a sequence entry should be
RECURSIVE choose(_, _)
choose(a, b) ==
    IF b = 0 THEN 1
    ELSE IF a = 0 THEN 0
    ELSE choose(a - 1, b - 1) + choose(a - 1, b)

\* the span a level has to cover: n at level k, below that the last gap of
\* the level above minus one
span_limit(m) ==
    IF m = k THEN n
    ELSE LET up == n_sequences[m + 1]
         IN IF Len(up) >= 2 THEN up[Len(up)] - up[Len(up) - 1] - 1 ELSE 0

\* C14: for n >= 1 and k >= 1 the sequence of every level m in 1..k starts
\* with seq[0] = 0, has seq[i] = C(m+i-1, m) for i >= 1, is strictly
\* increasing, and ends with its first value that reaches the level's span
\* limit.
C14_SequenceShape ==
    (cls = "Recursive" /\ n >= 1 /\ k >= 1) =>
        /\ ~(call = "__init__" /\ Raised)
        /\ \A m \in 1..k :
              LET seq == n_sequences[m]
              IN /\ Len(seq) >= 1
                 /\ seq[1] = 0
                 /\ \A i \in 1..(Len(seq) - 1) : seq[i + 1] = choose(m + i - 1, m)
                 /\ \A i \in 1..(Len(seq) - 1) : seq[i] < seq[i + 1]
                 /\ seq[Len(seq)] >= span_limit(m)
                 /\ \A i \in 1..(Len(seq) - 1) : seq[i] < span_limit(m)

\* Naturals beyond the machine word, as base-1000 digits, lowest first.
RECURSIVE big_times(_, _, _)
big_times(b, s, carry) ==
    IF b = <<>>
    THEN IF carry = 0 THEN <<>>
         ELSE <<carry % 1000>> \o big_times(<<>>, s, carry \div 1000)
    ELSE LET t == Head(b) * s + carry
         IN <<t % 1000>> \o big_times(Tail(b), s, t \div 1000)

RECURSIVE big_power(_, _)
big_power(base, e) ==
    IF e = 0 THEN <<1>> ELSE big_times(big_power(base, e - 1), base, 0)

big_le(a, b) ==
    \/ Len(a) < Len(b)
    \/ /\ Len(a) = Len(b)
       /\ \/ a = b
          \/ \E i \in 1..Len(a) :
                /\ a[i] < b[i]
                /\ \A j \in (i + 1)..Len(a) : a[j] = b[j]

\* C15: for k = 10 and n in {32, 128, 512, 2048}, ops after run_full_cycle()
\* is at most 2 * n^(1 + 1/k); in integers, ops^k <= 2^k * n^(k+1).
C15_BenchmarkWithinBound ==
    (cls = "Recursive" /\ k = 10 /\ n \in {32, 128, 512, 2048} /\ pc = "done") =>
        big_le(big_power(ops, k), big_times(big_power(n, k + 1), 2 ^ k, 0))

C15_Witness ==
    /\ cls = "Recursive" /\ k = 10 /\ n = 2048
    /\ pc = "done" /\ pos = 0 /\ nexts = n /\ prevs = n
    /\ ops > 3 * n

\* C16: for n >= 1 and k >= 1 every prev() of RecursiveCheckpointEnumerator
\* that returns True moves pos back by exactly one, so the backward phase of
\* run_full_cycle passes through n-1, ..., 0.
C16_PrevStepsBackOne ==
    [][(cls = "Recursive" /\ n >= 1 /\ k >= 1 /\ call' = "prev" /\ ret' = "True") =>
           pos' = pos - 1]_vars

distinct(s) == Cardinality(SeqToSet(s)) = Len(s)

\* C17: in ProperLogNEnumerator with k >= 1 the window never holds more than
\* k positions and never holds one twice; a next() that inserts into a full
\* window drops exactly the oldest entry and appends the new one.
C17_WindowBounded ==
    [][(cls = "ProperLogN" /\ k >= 1) =>
        /\ Len(checkpoints) <= k /\ distinct(checkpoints)
        /\ Len(checkpoints') <= k /\ distinct(checkpoints')
        /\ (call' = "next" /\ Len(checkpoints) = k /\ checkpoints' # checkpoints) =>
              \E x \in 0..n :
                 /\ x \notin SeqToSet(checkpoints)
                 /\ checkpoints' = Append(Tail(checkpoints), x)]_vars

C17_Witness ==
    /\ cls = "ProperLogN" /\ k >= 2
    /\ call = "next" /\ ret = "True"
    /\ Len(checkpoints) = k
    /\ 0 \notin SeqToSet(checkpoints)
    /\ checkpoints[Len(checkpoints)] = pos

\* the tree positions of the enumerator's HierarchicalBinaryTree
tree_positions == SeqToSet(all_positions)

\* C18: in ProperLogNEnumerator (k >= 1), after every next() that returns
\* True, a new pos that is a tree position is in the window.
C18_TreePositionIsCheckpointed ==
    (cls = "ProperLogN" /\ k >= 1 /\ call = "next" /\ ret = "True"
        /\ pos \in tree_positions) =>
            pos \in SeqToSet(checkpoints)

newest(window) == window[Len(window)]

\* C19: a prev() of ProperLogNEnumerator (k >= 1) that returns True drops the
\* most recently inserted checkpoint exactly when the new position pos - 1 is
\* below it, and then charges (dropped checkpoint - new position); every other
\* successful prev() leaves the window as it was and charges exactly one.
C19_EvictionTrigger ==
    [][(cls = "ProperLogN" /\ k >= 1 /\ call' = "prev" /\ ret' = "True") =>
          IF checkpoints # <<>> /\ pos - 1 < newest(checkpoints)
          THEN /\ checkpoints' = deque_pop(checkpoints)
               /\ ops' = ops + (newest(checkpoints) - (pos - 1))
          ELSE /\ checkpoints' = checkpoints
               /\ ops' = ops + 1]_vars

\* C20: every position in the window of ProperLogNEnumerator (k >= 1) is at
\* most the current pos, after any interleaving of next() and prev().
C20_WindowBehindPos ==
    (cls = "ProperLogN" /\ k >= 1 /\ ~Raised) =>
        \A c \in SeqToSet(checkpoints) : c <= pos

\* the positions of the levels above depth d (levels[d] holds depth d - 1)
shallower(d) == UNION {SeqToSet(levels[e]) : e \in 1..(d - 1)}

RECURSIVE is_power_of_two(_)
is_power_of_two(x) ==
    x >= 1 /\ (x = 1 \/ (x % 2 = 0 /\ is_power_of_two(x \div 2)))

\* m is the midpoint of two neighbours of S, and differs from both
midpoint_of_neighbours(m, S) ==
    \E low, high \in S :
        /\ low < high
        /\ \A z \in S : ~(low < z /\ z < high)
        /\ m = (low + high) \div 2
        /\ m # low /\ m # high

\* C21: for every n >= 1 _build_levels returns, and its levels partition
\* 1..n: depth 0 is the powers of two up to n together with n, every deeper
\* level holds only midpoints that no shallower depth holds, and the union of
\* the levels is every integer from 1 to n.
C21_LevelsPartition ==
    (cls = "HierarchicalBinaryTree" /\ call = "_build_levels" /\ n >= 1) =>
        /\ ret = "None"
        /\ Len(levels) >= 1
        /\ SeqToSet(levels[1]) = {x \in 1..n : is_power_of_two(x)} \cup {n}
        /\ \A d \in 2..Len(levels) :
              /\ levels[d] # <<>>
              /\ SeqToSet(levels[d]) \cap shallower(d) = {}
              /\ \A m \in SeqToSet(levels[d]) :
                    midpoint_of_neighbours(m, shallower(d))
        /\ \A d \in 1..Len(levels) : distinct(levels[d])
        /\ UNION {SeqToSet(levels[d]) : d \in 1..Len(levels)} = 1..n

C21_Witness ==
    /\ cls = "HierarchicalBinaryTree" /\ call = "_build_levels"
    /\ n >= 20 /\ ~is_power_of_two(n)
    /\ Len(levels) >= 4
    /\ n \in SeqToSet(levels[1])

\* C22: for n >= 1 and k >= 1, when run_full_cycle() of
\* RecursiveCheckpointEnumerator(n, k) completes, ops is not below the
\* oracle's optimal cost T(n, k).
C22_OpsAtLeastOptimum ==
    (cls = "Recursive" /\ n >= 1 /\ k >= 1 /\ pc = "done") =>
        py_le(T(n, k), Fin(ops))

TypeOK ==
    /\ pos \in 0..n
    /\ ops \in Nat
====
